---------------------------- MODULE Spec2Model ----------------------------
(***************************************************************************)
(* Model of src/app.py: the background model loader (load_models), the     *)
(* online speaker attribution (detect_speaker, reset_speakers) and the     *)
(* chunk pipeline (transcribe_audio) behind the single-threaded HTTPServer.*)
(*                                                                         *)
(* Voice embeddings are integer vectors of dimension NumDirs.  Cosine      *)
(* similarity is computed as the code computes it, dot / (norm * norm),    *)
(* in exact rational arithmetic (a rational is a reduced pair <<n, d>>     *)
(* with d > 0); every vector used has an integral Euclidean norm, so the   *)
(* norm is exact.  The embedding model L2-normalises its output, so the    *)
(* vectors fed to detect_speaker are finite and non-zero.                  *)
(***************************************************************************)
EXTENDS Integers, Sequences, FiniteSets, TLC

VARIABLES
    whisper_model,       \* app.py:29   "None" or "WhisperModel"
    voice_encoder,       \* app.py:30   "None" or "VoiceEncoder"
    speaker_embeddings,  \* app.py:31   dict in insertion order: Seq of [id, embs]
    current_speaker,     \* app.py:32
    is_ready,            \* app.py:33
    loading_status,      \* app.py:34
    loader_pc,           \* line of load_models the loader thread is about to run
    chunk,               \* audio chunk handed to transcribe_audio by the last POST /transcribe
    result,              \* value returned by the last transcribe_audio call
    response,            \* what the caller of the last POST request received
    calls,               \* collaborators invoked by the last transcribe_audio call, in order
    ds,                  \* detect_speaker in the last transcribe_audio call: [called, embedding, ret]
    fresh,               \* a freshly started registry fed the detect_speaker inputs since the last reset
    budget,              \* free-form chunks the clients may still send
    resets,              \* POST /reset requests the clients may still send
    backlog,             \* requests sent and not yet accepted by the server, oldest first
    handlers             \* do_POST executions in progress: [client, path, embedding, pc, seen]

vars == <<whisper_model, voice_encoder, speaker_embeddings, current_speaker,
          is_ready, loading_status, loader_pc, chunk, result, response, calls, ds,
          fresh, budget, resets, backlog, handlers>>

loaderVars == <<whisper_model, voice_encoder, is_ready, loading_status, loader_pc>>
registryVars == <<speaker_embeddings, current_speaker>>
httpVars == <<backlog, handlers>>
historyVars == <<chunk, result, response, calls, ds, fresh>>
serverVars == <<speaker_embeddings, current_speaker, chunk, result, response, calls, ds,
                fresh, budget, resets, backlog, handlers>>

---------------------------------------------------------------------------
(* Bounds and program constants *)

\* Dimension of the embedding space = number of mutually orthogonal voices.
NumDirs == 11

\* Free-form (arbitrary) chunks a client sends after the scripted warm-up.
MaxFree == 2

\* POST /reset requests a client sends.
MaxResets == 1

SIMILARITY_THRESHOLD_NUM == 85
SIMILARITY_THRESHOLD_DEN == 100
MAX_REFERENCE_SAMPLES == 10
MAX_SPEAKERS == 10
MIN_SAMPLES == 1600

SIMILARITY_THRESHOLD == <<SIMILARITY_THRESHOLD_NUM, SIMILARITY_THRESHOLD_DEN>>

None == "None"
NoEmbedding == <<>>       \* Python None where an embedding is expected

---------------------------------------------------------------------------
(* Exact rational arithmetic *)

Abs(x) == IF x < 0 THEN -x ELSE x

RECURSIVE GCD(_, _)
GCD(a, b) == IF b = 0 THEN a ELSE GCD(b, a % b)

\* The reduced fraction n/d (d # 0), denominator positive.
Reduce(n, d, g) == IF d < 0 THEN <<(-n) \div g, (-d) \div g>> ELSE <<n \div g, d \div g>>

Rat(n, d) == Reduce(n, d, GCD(Abs(n), Abs(d)))

RatAdd(p, q) == Rat(p[1] * q[2] + q[1] * p[2], p[2] * q[2])
RatGT(p, q) == p[1] * q[2] > q[1] * p[2]
RatGE(p, q) == p[1] * q[2] >= q[1] * p[2]

---------------------------------------------------------------------------
(* Vectors and cosine similarity (app.py:143) *)

RECURSIVE DotUpTo(_, _, _)
DotUpTo(a, b, k) == IF k = 0 THEN 0 ELSE DotUpTo(a, b, k - 1) + a[k] * b[k]

\* np.dot
Dot(a, b) == DotUpTo(a, b, Len(a))

\* Integer square root by Newton's iteration from x >= sqrt(n)
RECURSIVE SqrtFrom(_, _)
SqrtFrom(n, x) == IF x * x <= n THEN x ELSE SqrtFrom(n, (x + n \div x) \div 2)

\* The integer square root of n; n \div 16 + 8 >= sqrt(n) for every n >= 0
Sqrt(n) == SqrtFrom(n, n \div 16 + 8)

\* np.linalg.norm, exact on vectors whose squared length is a perfect square
\* (the singleton set makes TLC compute the dot product once)
Norm(a) == CHOOSE r \in {Sqrt(n) : n \in {Dot(a, a)}} : TRUE

\* np.dot(embedding, emb) / (np.linalg.norm(embedding) * np.linalg.norm(emb))
Cosine(embedding, emb) ==
    CHOOSE q \in {Rat(n, d) : n \in {Dot(embedding, emb)},
                            d \in {Norm(embedding) * Norm(emb)}} : TRUE

RECURSIVE SumSims(_, _, _)
SumSims(embedding, embeddings_list, k) ==
    IF k = 0 THEN <<0, 1>>
    ELSE RatAdd(SumSims(embedding, embeddings_list, k - 1),
                Cosine(embedding, embeddings_list[k]))

\* np.mean(similarities) over the identity's reference set
RatDiv(s, n) == Rat(s[1], s[2] * n)

AvgSimilarity(embedding, embeddings_list) ==
    RatDiv(SumSims(embedding, embeddings_list, Len(embeddings_list)),
           Len(embeddings_list))

---------------------------------------------------------------------------
(* The registry: a Python dict, kept as the sequence of its items in       *)
(* insertion order.                                                        *)

Letters == <<"A", "B", "C", "D", "E", "F", "G", "H", "I", "J", "K", "L", "M",
             "N", "O", "P", "Q", "R", "S", "T", "U", "V", "W", "X", "Y", "Z">>

\* Variant: the label index starts one too far.
ChrOffByOne(n) == Letters[n + 2]

\* chr(ord('A') + n)
Chr(n) == Letters[n + 1]

Keys(d) == {d[i].id : i \in 1..Len(d)}

IndexOf(d, key) == CHOOSE i \in 1..Len(d) : d[i].id = key

\* d[key]
DictGet(d, key) == d[IndexOf(d, key)].embs

\* d[key] = value: an existing key keeps its place, a new key goes last
DictSet(d, key, value) ==
    IF key \in Keys(d)
    THEN [d EXCEPT ![IndexOf(d, key)] = [id |-> key, embs |-> value]]
    ELSE Append(d, [id |-> key, embs |-> value])

---------------------------------------------------------------------------
(* detect_speaker (app.py:125-168) *)

\* Variant: an identity that equals the best mean so far replaces it.
BetterMatchLastWins(best, speaker_id, avg_similarity) ==
    IF RatGE(avg_similarity, best.best_similarity)
    THEN [best_speaker |-> speaker_id, best_similarity |-> avg_similarity]
    ELSE best

\* app.py:148-150, one iteration of the loop
BetterMatch(best, speaker_id, avg_similarity) ==
    IF RatGT(avg_similarity, best.best_similarity)
    THEN [best_speaker |-> speaker_id, best_similarity |-> avg_similarity]
    ELSE best

\* app.py:139-150, the loop over the first k items of the registry
RECURSIVE BestUpTo(_, _, _)
BestUpTo(d, embedding, k) ==
    IF k = 0
    THEN [best_speaker |-> None, best_similarity |-> <<-1, 1>>]
    ELSE BetterMatch(BestUpTo(d, embedding, k - 1), d[k].id,
                     AvgSimilarity(embedding, d[k].embs))

BestMatch(d, embedding) == BestUpTo(d, embedding, Len(d))

\* Variant: the first identity is filed under the second label.
FirstSpeakerSecondLabel(embedding) ==
    [speaker_embeddings |-> <<[id |-> "B", embs |-> <<embedding>>]>>,
     current_speaker    |-> "B",
     ret                |-> "B"]

\* app.py:133-137
FirstSpeaker(embedding) ==
    [speaker_embeddings |-> DictSet(<<>>, "A", <<embedding>>),
     current_speaker    |-> "A",
     ret                |-> "A"]

\* Variant: a full reference set drops its oldest sample for the new one.
SameSpeakerSliding(d, best_speaker, embedding) ==
    [speaker_embeddings |->
         IF Len(DictGet(d, best_speaker)) < MAX_REFERENCE_SAMPLES
         THEN DictSet(d, best_speaker, Append(DictGet(d, best_speaker), embedding))
         ELSE DictSet(d, best_speaker, Append(Tail(DictGet(d, best_speaker)), embedding)),
     current_speaker    |-> best_speaker,
     ret                |-> best_speaker]

\* Variant: the new sample is inserted at the front of the reference set.
SameSpeakerPrepend(d, best_speaker, embedding) ==
    [speaker_embeddings |->
         IF Len(DictGet(d, best_speaker)) < MAX_REFERENCE_SAMPLES
         THEN DictSet(d, best_speaker, <<embedding>> \o DictGet(d, best_speaker))
         ELSE d,
     current_speaker    |-> best_speaker,
     ret                |-> best_speaker]

\* app.py:155-158
SameSpeaker(d, best_speaker, embedding) ==
    [speaker_embeddings |->
         IF Len(DictGet(d, best_speaker)) < MAX_REFERENCE_SAMPLES
         THEN DictSet(d, best_speaker, Append(DictGet(d, best_speaker), embedding))
         ELSE d,
     current_speaker    |-> best_speaker,
     ret                |-> best_speaker]

\* Variant: the cap test admits one identity too many.
NewSpeakerNoCap(d, cur, best_speaker, embedding) ==
    IF Len(d) <= MAX_SPEAKERS
    THEN [speaker_embeddings |-> DictSet(d, Chr(Len(d)), <<embedding>>),
          current_speaker    |-> Chr(Len(d)),
          ret                |-> Chr(Len(d))]
    ELSE [speaker_embeddings |-> d, current_speaker |-> cur, ret |-> best_speaker]

\* Variant: at the cap the current speaker is echoed instead of the best match.
NewSpeakerEchoCurrent(d, cur, best_speaker, embedding) ==
    IF Len(d) < MAX_SPEAKERS
    THEN [speaker_embeddings |-> DictSet(d, Chr(Len(d)), <<embedding>>),
          current_speaker    |-> Chr(Len(d)),
          ret                |-> Chr(Len(d))]
    ELSE [speaker_embeddings |-> d, current_speaker |-> cur, ret |-> cur]

\* Variant: a new identity is stored but the pointer stays where it was.
NewSpeakerStalePointer(d, cur, best_speaker, embedding) ==
    IF Len(d) < MAX_SPEAKERS
    THEN [speaker_embeddings |-> DictSet(d, Chr(Len(d)), <<embedding>>),
          current_speaker    |-> cur,
          ret                |-> Chr(Len(d))]
    ELSE [speaker_embeddings |-> d, current_speaker |-> cur, ret |-> best_speaker]

\* Variant: a new identity starts with an empty reference set.
NewSpeakerEmptySet(d, cur, best_speaker, embedding) ==
    IF Len(d) < MAX_SPEAKERS
    THEN [speaker_embeddings |-> DictSet(d, Chr(Len(d)), <<>>),
          current_speaker    |-> Chr(Len(d)),
          ret                |-> Chr(Len(d))]
    ELSE [speaker_embeddings |-> d, current_speaker |-> cur, ret |-> best_speaker]

\* app.py:161-168
NewSpeaker(d, cur, best_speaker, embedding) ==
    LET new_speaker == Chr(Len(d))
    IN  IF Len(d) < MAX_SPEAKERS
        THEN [speaker_embeddings |-> DictSet(d, new_speaker, <<embedding>>),
              current_speaker    |-> new_speaker,
              ret                |-> new_speaker]
        ELSE [speaker_embeddings |-> d,
              current_speaker    |-> cur,
              ret                |-> best_speaker]

\* Variant: a score equal to the threshold does not match.
DecideStrict(d, cur, embedding, best) ==
    IF RatGT(best.best_similarity, SIMILARITY_THRESHOLD)
    THEN SameSpeaker(d, best.best_speaker, embedding)
    ELSE NewSpeaker(d, cur, best.best_speaker, embedding)

\* app.py:154-168, after the loop found best
Decide(d, cur, embedding, best) ==
    IF RatGE(best.best_similarity, SIMILARITY_THRESHOLD)
    THEN SameSpeaker(d, best.best_speaker, embedding)
    ELSE NewSpeaker(d, cur, best.best_speaker, embedding)

\* Variant: without an embedding the first label is returned.
DetectSpeakerNoneIsFirst(d, cur, embedding) ==
    IF embedding = NoEmbedding
    THEN [speaker_embeddings |-> d, current_speaker |-> "A", ret |-> "A"]
    ELSE IF d = <<>>
    THEN FirstSpeaker(embedding)
    ELSE Decide(d, cur, embedding, BestMatch(d, embedding))

\* detect_speaker(embedding) run on registry d with current speaker cur:
\* the registry and pointer it leaves and the label it returns.
DetectSpeaker(d, cur, embedding) ==
    IF embedding = NoEmbedding
    THEN [speaker_embeddings |-> d, current_speaker |-> cur, ret |-> cur]
    ELSE IF d = <<>>
    THEN FirstSpeaker(embedding)
    ELSE Decide(d, cur, embedding, BestMatch(d, embedding))

\* Variant: the reset forgets the current-speaker pointer.
ResetKeepsPointer == [speaker_embeddings |-> <<>>, current_speaker |-> current_speaker]

\* Variant: the reset empties the registry and points at the second label.
ResetToSecondLabel == [speaker_embeddings |-> <<>>, current_speaker |-> "B"]

\* reset_speakers (app.py:171-175)
ResetSpeakersState == [speaker_embeddings |-> <<>>, current_speaker |-> "A"]

\* The registry and pointer of a process that has just started (app.py:31-32)
FreshStart == [speaker_embeddings |-> <<>>, current_speaker |-> "A", ret |-> None]

---------------------------------------------------------------------------
(* Inputs: voice embeddings and audio chunks *)

\* The i-th of NumDirs mutually orthogonal voices (norm 20).
Voice(i) == [k \in 1..NumDirs |-> IF k = i THEN 20 ELSE 0]

\* Cosine exactly 0.85 with Voice(1) (norm 20).
NearVoice1 ==
    [k \in 1..NumDirs |->
        CASE k = 1 -> 17 [] k = 2 -> 10 [] k = 3 -> 3 [] k \in {4, 5} -> 1 [] OTHER -> 0]

\* Cosine 0.8 with Voice(1) and 0.6 with Voice(2) (norm 20).
BelowVoice1 == [k \in 1..NumDirs |-> CASE k = 1 -> 16 [] k = 2 -> 12 [] OTHER -> 0]

\* Cosine -1 with Voice(1).
OppositeVoice1 == [k \in 1..NumDirs |-> IF k = 1 THEN -20 ELSE 0]

\* Voice(2) at a quarter of the amplitude (norm 5).
QuietVoice2 == [k \in 1..NumDirs |-> IF k = 2 THEN 5 ELSE 0]

Embeddings ==
    {Voice(1), NearVoice1, BelowVoice1, OppositeVoice1, QuietVoice2, Voice(NumDirs)}

\* A chunk as the pipeline sees it: whether base64 decoding succeeds, whether
\* the container decodes, the sample counts before and after preprocessing,
\* what the embedding model and the speech-to-text model do with it.
Chunk(b64, dec, raw, pre, embraise, emb, sttraise, txt) ==
    [b64_ok |-> b64, decodable |-> dec, raw_len |-> raw, pre_len |-> pre,
     embed_raises |-> embraise, embedding |-> emb,
     stt_raises |-> sttraise, text |-> txt, detected |-> "en"]

VoicedChunk(emb) == Chunk(TRUE, TRUE, 16000, 16000, FALSE, emb, FALSE, "hola")

\* Chunks the pipeline cannot embed, or cannot transcribe: bad base64, an
\* undecodable container, too short before or after preprocessing, the
\* embedding model raising, the speech-to-text model raising.
OddChunks ==
    {Chunk(FALSE, FALSE, 0, 0, FALSE, Voice(1), FALSE, ""),
     Chunk(TRUE, FALSE, 0, 0, FALSE, Voice(1), TRUE, ""),
     Chunk(TRUE, TRUE, MIN_SAMPLES - 1, 0, FALSE, Voice(1), FALSE, ""),
     Chunk(TRUE, TRUE, MIN_SAMPLES, MIN_SAMPLES - 1, FALSE, Voice(1), FALSE, "hola"),
     Chunk(TRUE, TRUE, MIN_SAMPLES, MIN_SAMPLES, TRUE, Voice(1), FALSE, "hola"),
     Chunk(TRUE, TRUE, 16000, 16000, FALSE, Voice(1), TRUE, ""),
     Chunk(TRUE, TRUE, 16000, 16000, FALSE, Voice(NumDirs), TRUE, "")}

\* POST /transcribe bodies: a chunk and a language hint
FreeRequests ==
    {<<VoicedChunk(e), "es">> : e \in Embeddings}
    \cup {<<c, "es">> : c \in OddChunks}
    \cup {<<VoicedChunk(NearVoice1), "auto">>}

\* The scripted warm-up: the first voice speaks again while it is alone; a
\* voice not heard so far speaks once the first voice has spoken once, or
\* often enough to fill its reference set.
WarmChunks ==
    {VoicedChunk(Voice(i)) :
        i \in {j \in 1..NumDirs :
                 \/ /\ j = Len(speaker_embeddings) + 1
                    /\ \/ speaker_embeddings = <<>>
                       \/ Len(speaker_embeddings[1].embs) \in {1, MAX_REFERENCE_SAMPLES}
                 \/ j = 1 /\ Len(speaker_embeddings) = 1}}

---------------------------------------------------------------------------
(* get_voice_embedding (app.py:84-122), load_audio_for_embedding (69-81) *)

\* load_audio_for_embedding: the sample count, or None when decoding raises
LoadAudioForEmbedding(c) == IF c.decodable THEN c.raw_len ELSE -1

\* Variant: a chunk that fails to decode is embedded all the same.
GetVoiceEmbeddingIgnoresDecode(encoder, c) ==
    IF encoder = None THEN NoEmbedding
    ELSE IF c.raw_len < MIN_SAMPLES /\ c.decodable THEN NoEmbedding
    ELSE IF c.pre_len < MIN_SAMPLES /\ c.decodable THEN NoEmbedding
    ELSE IF c.embed_raises THEN NoEmbedding
    ELSE c.embedding

\* Variant: the length after preprocessing is not checked.
GetVoiceEmbeddingNoSecondCheck(encoder, c) ==
    IF encoder = None THEN NoEmbedding
    ELSE IF ~c.decodable THEN NoEmbedding
    ELSE IF c.raw_len < MIN_SAMPLES THEN NoEmbedding
    ELSE IF c.embed_raises THEN NoEmbedding
    ELSE c.embedding

GetVoiceEmbedding(encoder, c) ==
    IF encoder = None THEN NoEmbedding
    ELSE IF LoadAudioForEmbedding(c) = -1 THEN NoEmbedding
    ELSE IF LoadAudioForEmbedding(c) < MIN_SAMPLES THEN NoEmbedding
    ELSE IF c.pre_len < MIN_SAMPLES THEN NoEmbedding
    ELSE IF c.embed_raises THEN NoEmbedding
    ELSE c.embedding

---------------------------------------------------------------------------
(* load_models (app.py:37-66), one step per statement of the loader thread *)

LoadStatusWhisper ==
    /\ loader_pc = "L42"
    /\ loading_status' = "Loading Whisper..."
    /\ loader_pc' = "L46"
    /\ UNCHANGED <<whisper_model, voice_encoder, is_ready, serverVars>>

LoadWhisper ==
    /\ loader_pc = "L46"
    /\ \/ /\ whisper_model' = "WhisperModel"
          /\ loader_pc' = "L49"
       \/ /\ whisper_model' = whisper_model      \* the import or constructor raises
          /\ loader_pc' = "L66"
    /\ UNCHANGED <<voice_encoder, is_ready, loading_status, serverVars>>

LoadStatusResemblyzer ==
    /\ loader_pc = "L49"
    /\ loading_status' = "Loading Resemblyzer..."
    /\ loader_pc' = "L53"
    /\ UNCHANGED <<whisper_model, voice_encoder, is_ready, serverVars>>

\* Variant: a failure of the embedding model reaches the outer handler.
LoadResemblyzerFatal ==
    /\ loader_pc = "L53"
    /\ \/ voice_encoder' = "VoiceEncoder" /\ loader_pc' = "L60"
       \/ voice_encoder' = None /\ loader_pc' = "L66"
    /\ UNCHANGED <<whisper_model, is_ready, loading_status, serverVars>>

LoadResemblyzer ==
    /\ loader_pc = "L53"
    /\ \/ voice_encoder' = "VoiceEncoder"
       \/ voice_encoder' = None                  \* app.py:56-58
    /\ loader_pc' = "L60"
    /\ UNCHANGED <<whisper_model, is_ready, loading_status, serverVars>>

LoadSetReady ==
    /\ loader_pc = "L60"
    /\ is_ready' = TRUE
    /\ loader_pc' = "L61"
    /\ UNCHANGED <<whisper_model, voice_encoder, loading_status, serverVars>>

LoadStatusReady ==
    /\ loader_pc = "L61"
    /\ loading_status' = "Ready"
    /\ loader_pc' = "done"
    /\ UNCHANGED <<whisper_model, voice_encoder, is_ready, serverVars>>

LoadError ==
    /\ loader_pc = "L66"
    /\ loading_status' = "Error"
    /\ loader_pc' = "done"
    /\ UNCHANGED <<whisper_model, voice_encoder, is_ready, serverVars>>

---------------------------------------------------------------------------
(* transcribe_audio (app.py:178-225) *)

NoResult == [pending |-> TRUE]
NoChunk == [absent |-> TRUE]
ErrorResult(msg) == [error |-> msg]
NotCalled == [called |-> FALSE, embedding |-> NoEmbedding, ret |-> None]

\* language=language if language != "auto" else None; info.language
InfoLanguage(c, language) == IF language # "auto" THEN language ELSE c.detected

\* app.py:213-218, or the handler of app.py:223-225 when transcription raises
ChunkResult(c, language, speaker, total_speakers) ==
    IF ~c.decodable \/ c.stt_raises
    THEN ErrorResult("transcribe")
    ELSE [text |-> c.text, speaker |-> speaker,
          language |-> InfoLanguage(c, language),
          total_speakers |-> total_speakers]

\* get_voice_embedding gets as far as voice_encoder.embed_utterance (app.py:113)
ReachesEmbedUtterance(c) ==
    c.decodable /\ c.raw_len >= MIN_SAMPLES /\ c.pre_len >= MIN_SAMPLES

\* app.py:197-218 with the embedding model loaded: embedding is what
\* get_voice_embedding returned and d what detect_speaker did with it.
Attributed(c, language, embedding, d) ==
    [result |-> ChunkResult(c, language, d.ret, Len(d.speaker_embeddings)),
     speaker_embeddings |-> d.speaker_embeddings,
     current_speaker |-> d.current_speaker,
     calls |-> <<"get_voice_embedding">>
               \o (IF ReachesEmbedUtterance(c) THEN <<"embed_utterance">> ELSE <<>>)
               \o <<"detect_speaker", "whisper_model.transcribe">>,
     ds |-> [called |-> TRUE, embedding |-> embedding, ret |-> d.ret]]

\* app.py:196-218 without the embedding model: speaker stays None
Unattributed(c, language, d, cur) ==
    [result |-> ChunkResult(c, language, None, Len(d)),
     speaker_embeddings |-> d,
     current_speaker |-> cur,
     calls |-> <<"whisper_model.transcribe">>,
     ds |-> NotCalled]

\* Variant: a refused call moves the current-speaker pointer back to "A".
RejectedClearsPointer(msg, d, cur) ==
    [result |-> ErrorResult(msg),
     speaker_embeddings |-> d,
     current_speaker |-> "A",
     calls |-> <<>>,
     ds |-> NotCalled]

\* A call that returns an error before the speaker step is reached
Rejected(msg, d, cur) ==
    [result |-> ErrorResult(msg),
     speaker_embeddings |-> d,
     current_speaker |-> cur,
     calls |-> <<>>,
     ds |-> NotCalled]

DetectOn(c, language, embedding, d, cur) ==
    Attributed(c, language, embedding, DetectSpeaker(d, cur, embedding))

\* Variant: the readiness gate is missing.
TranscribeOutcomeNoGate(ready, encoder, d, cur, c, language) ==
    IF ~c.b64_ok THEN Rejected("b64decode", d, cur)
    ELSE IF encoder # None
    THEN DetectOn(c, language, GetVoiceEmbedding(encoder, c), d, cur)
    ELSE Unattributed(c, language, d, cur)

\* The whole call on registry d and pointer cur: what it returns, the
\* registry and pointer it leaves, and the collaborators it invoked.
TranscribeOutcome(ready, encoder, d, cur, c, language) ==
    IF ~ready THEN Rejected("Modelo no cargado", d, cur)
    ELSE IF ~c.b64_ok THEN Rejected("b64decode", d, cur)
    ELSE IF encoder # None
    THEN DetectOn(c, language, GetVoiceEmbedding(encoder, c), d, cur)
    ELSE Unattributed(c, language, d, cur)

\* The freshly started registry takes the same detect_speaker call.
FreshAfter(out) ==
    IF out.ds.called
    THEN DetectSpeaker(fresh.speaker_embeddings, fresh.current_speaker, out.ds.embedding)
    ELSE fresh

\* do_POST writes a status line and a JSON body (app.py:1095-1099,
\* 1102-1106, 1112-1116)
Reply(status, body) == [status |-> status, body |-> body]

\* An exception leaves do_POST: the server logs it and closes the
\* connection, nothing is written to the caller.
NoReply == [status |-> 0]

TranscribeApply(out) ==
    /\ result' = out.result
    /\ response' = Reply(200, out.result)
    /\ speaker_embeddings' = out.speaker_embeddings
    /\ current_speaker' = out.current_speaker
    /\ calls' = out.calls
    /\ ds' = out.ds
    /\ fresh' = FreshAfter(out)
    /\ UNCHANGED <<loaderVars, httpVars>>

TranscribeAudio(c, language) ==
    /\ chunk' = c
    /\ TranscribeApply(TranscribeOutcome(is_ready, voice_encoder, speaker_embeddings,
                                         current_speaker, c, language))

\* POST /transcribe bodies that do not reach transcribe_audio: a
\* Content-Length that is no number, bytes that are not UTF-8, text that
\* is not JSON, JSON that is not an object.
BadBodies == {"bad-length", "not-utf8", "not-json", "not-object"}

\* do_POST on such a body (app.py:1085-1106): lines 1085-1086 stand before
\* the try block, lines 1090-1092 inside it.
DoPostBadBody(body) ==
    IF body \in {"bad-length", "not-utf8"}
    THEN NoReply
    ELSE Reply(500, ErrorResult("body"))

\* POST /transcribe with a chunk of the warm-up script
TranscribeWarm ==
    /\ budget = MaxFree
    /\ resets = MaxResets
    /\ \E c \in WarmChunks : TranscribeAudio(c, "es")
    /\ UNCHANGED <<budget, resets>>

\* POST /transcribe with any chunk
TranscribeFree ==
    /\ budget > 0
    /\ \E req \in FreeRequests : TranscribeAudio(req[1], req[2])
    /\ budget' = budget - 1
    /\ UNCHANGED resets

\* POST /transcribe with a body that does not reach transcribe_audio
TranscribeBadBody ==
    /\ budget > 0
    /\ \E body \in BadBodies : response' = DoPostBadBody(body)
    /\ chunk' = NoChunk
    /\ budget' = budget - 1
    /\ UNCHANGED <<loaderVars, registryVars, result, calls, ds, fresh, resets, httpVars>>

\* POST /reset (app.py:1109-1116): reset_speakers
ResetSpeakers ==
    /\ resets > 0
    /\ response' = Reply(200, [status |-> "ok"])
    /\ speaker_embeddings' = ResetSpeakersState.speaker_embeddings
    /\ current_speaker' = ResetSpeakersState.current_speaker
    /\ fresh' = FreshStart
    /\ resets' = resets - 1
    /\ UNCHANGED <<loaderVars, chunk, result, calls, ds, budget, httpVars>>

---------------------------------------------------------------------------

Init ==
    /\ whisper_model = None
    /\ voice_encoder = None
    /\ speaker_embeddings = <<>>
    /\ current_speaker = "A"
    /\ is_ready = FALSE
    /\ loading_status = "Starting..."
    /\ loader_pc = "L42"
    /\ chunk = NoChunk
    /\ result = NoResult
    /\ response = NoReply
    /\ calls = <<>>
    /\ ds = NotCalled
    /\ fresh = FreshStart
    /\ budget = MaxFree
    /\ resets = MaxResets
    /\ backlog = <<>>
    /\ handlers = {}

Next ==
    \/ LoadStatusWhisper
    \/ LoadWhisper
    \/ LoadStatusResemblyzer
    \/ LoadResemblyzer
    \/ LoadSetReady
    \/ LoadStatusReady
    \/ LoadError
    \/ TranscribeWarm
    \/ TranscribeFree
    \/ TranscribeBadBody
    \/ ResetSpeakers

Spec == Init /\ [][Next]_vars

---------------------------------------------------------------------------
(* The server loop under concurrent clients (app.py:1132-1163): the loader *)
(* thread runs beside serve_forever, clients connect whenever they like,   *)
(* and a do_POST execution takes several steps: detect_speaker first reads *)
(* the registry (app.py:129-152), then writes it (app.py:154-166).         *)

\* Clients connected at the same time.
NumClients == 2

Clients == 1..NumClients

\* Voices the concurrent clients send.
ServeEmbeddings == {Voice(1), NearVoice1, Voice(2)}

\* Variant: ThreadingHTTPServer, one handler thread per connection.
CanAcceptThreading(hs) == TRUE

\* HTTPServer (app.py:1137) has no threading mix-in: serve_forever
\* (app.py:1163) runs each handler to its end on the main thread before it
\* accepts the next connection.
CanAccept(hs) == hs = {}

Idle(client) ==
    /\ \A i \in 1..Len(backlog) : backlog[i].client # client
    /\ \A h \in handlers : h.client # client

NotSeen == [unread |-> TRUE]

Handler(req) ==
    [client |-> req.client, path |-> req.path, embedding |-> req.embedding,
     pc |-> "begin", seen |-> NotSeen]

\* The writes of detect_speaker decided on the registry seen when it was
\* read (best is the match found in it), landing on the registry as it is
\* now (app.py:154-166).  speaker_embeddings[best_speaker] raises KeyError
\* when the identity is gone.
WriteDecided(now, cur, seen, best, embedding) ==
    IF RatGE(best.best_similarity, SIMILARITY_THRESHOLD)
    THEN IF best.best_speaker \notin Keys(now)
         THEN [speaker_embeddings |-> now, current_speaker |-> cur]
         ELSE [speaker_embeddings |->
                   IF Len(DictGet(now, best.best_speaker)) < MAX_REFERENCE_SAMPLES
                   THEN DictSet(now, best.best_speaker,
                                Append(DictGet(now, best.best_speaker), embedding))
                   ELSE now,
               current_speaker |-> best.best_speaker]
    ELSE IF Len(now) < MAX_SPEAKERS
    THEN [speaker_embeddings |-> DictSet(now, Chr(Len(seen)), <<embedding>>),
          current_speaker |-> Chr(Len(seen))]
    ELSE [speaker_embeddings |-> now, current_speaker |-> cur]

\* app.py:133-166 as above, with the empty-registry case of app.py:133-137
DetectWrite(now, cur, seen, embedding) ==
    IF seen = <<>>
    THEN [speaker_embeddings |-> DictSet(now, "A", <<embedding>>), current_speaker |-> "A"]
    ELSE WriteDecided(now, cur, seen, BestMatch(seen, embedding), embedding)

\* A client with no request under way posts a chunk
ClientSendChunk ==
    /\ budget > 0
    /\ \E client \in Clients, e \in ServeEmbeddings :
          /\ Idle(client)
          /\ backlog' = Append(backlog, [client |-> client, path |-> "/transcribe",
                                         embedding |-> e])
    /\ budget' = budget - 1
    /\ UNCHANGED <<loaderVars, registryVars, historyVars, resets, handlers>>

\* A client with no request under way posts a reset
ClientSendReset ==
    /\ resets > 0
    /\ \E client \in Clients :
          /\ Idle(client)
          /\ backlog' = Append(backlog, [client |-> client, path |-> "/reset",
                                         embedding |-> NoEmbedding])
    /\ resets' = resets - 1
    /\ UNCHANGED <<loaderVars, registryVars, historyVars, budget, handlers>>

\* serve_forever accepts the oldest waiting connection
Accept ==
    /\ backlog # <<>>
    /\ CanAccept(handlers)
    /\ handlers' = handlers \cup {Handler(Head(backlog))}
    /\ backlog' = Tail(backlog)
    /\ UNCHANGED <<loaderVars, registryVars, historyVars, budget, resets>>

\* transcribe_audio up to the end of the loop of detect_speaker: refused
\* when not ready, no attribution without the embedding model
HandlerRead ==
    /\ \E h \in handlers :
          /\ h.path = "/transcribe"
          /\ h.pc = "begin"
          /\ handlers' =
                IF is_ready /\ voice_encoder # None
                THEN (handlers \ {h}) \cup
                     {[h EXCEPT !.pc = "write",
                                !.seen = [speaker_embeddings |-> speaker_embeddings,
                                          current_speaker |-> current_speaker]]}
                ELSE handlers \ {h}
    /\ UNCHANGED <<loaderVars, registryVars, historyVars, budget, resets, backlog>>

\* the rest of detect_speaker and of the handler
HandlerWrite ==
    /\ \E h \in handlers :
          /\ h.pc = "write"
          /\ speaker_embeddings' =
                DetectWrite(speaker_embeddings, current_speaker,
                            h.seen.speaker_embeddings, h.embedding).speaker_embeddings
          /\ current_speaker' =
                DetectWrite(speaker_embeddings, current_speaker,
                            h.seen.speaker_embeddings, h.embedding).current_speaker
          /\ handlers' = handlers \ {h}
    /\ UNCHANGED <<loaderVars, historyVars, budget, resets, backlog>>

\* reset_speakers in the handler of POST /reset
HandlerReset ==
    /\ \E h \in handlers :
          /\ h.path = "/reset"
          /\ h.pc = "begin"
          /\ handlers' = handlers \ {h}
    /\ speaker_embeddings' = ResetSpeakersState.speaker_embeddings
    /\ current_speaker' = ResetSpeakersState.current_speaker
    /\ UNCHANGED <<loaderVars, historyVars, budget, resets, backlog>>

NextServe ==
    \/ LoadStatusWhisper
    \/ LoadWhisper
    \/ LoadStatusResemblyzer
    \/ LoadResemblyzer
    \/ LoadSetReady
    \/ LoadStatusReady
    \/ LoadError
    \/ ClientSendChunk
    \/ ClientSendReset
    \/ Accept
    \/ HandlerRead
    \/ HandlerWrite
    \/ HandlerReset

SpecServe == Init /\ [][NextServe]_vars

---------------------------------------------------------------------------
(* GET /status beside the loader thread (app.py:1037-1050, 1132-1134): the *)
(* handler builds its answer by reading the globals one after the other,   *)
(* in the order of the dict literal, and the loader thread may run between *)
(* any two reads.  Requests are still handled one at a time.               *)
---------------------------------------------------------------------------

MODEL_NAME == "base"

\* Variant: the count of stored reference embeddings.
SpeakersCountSamples(d) ==
    Cardinality({p \in (1..Len(d)) \X (1..MAX_REFERENCE_SAMPLES) :
                    p[2] <= Len(d[p[1]].embs)})

\* len(speaker_embeddings) (app.py:1048)
SpeakersCount(d) == Len(d)

\* do_GET has matched '/status' and sent the headers (app.py:1037-1041)
StatusHandler ==
    [client |-> 0, path |-> "/status", embedding |-> NoEmbedding,
     pc |-> "L1044", seen |-> <<>>]

\* The dict built at app.py:1043-1049 from the values read
StatusBody(seen) ==
    [ready |-> seen[1], status |-> seen[2], model |-> MODEL_NAME,
     resemblyzer |-> seen[3], speakers |-> seen[4]]

\* One entry of the dict literal is evaluated
StatusRead(pc, next, value) ==
    \E h \in handlers :
        /\ h.path = "/status"
        /\ h.pc = pc
        /\ handlers' = {[h EXCEPT !.pc = next, !.seen = Append(@, value)]}

\* serve_forever accepts a GET /status
StatusBegin ==
    /\ CanAccept(handlers)
    /\ handlers' = {StatusHandler}
    /\ UNCHANGED <<loaderVars, registryVars, historyVars, budget, resets, backlog>>

\* "ready": is_ready (app.py:1044)
StatusReadReady ==
    /\ StatusRead("L1044", "L1045", is_ready)
    /\ UNCHANGED <<loaderVars, registryVars, historyVars, budget, resets, backlog>>

\* "status": loading_status (app.py:1045)
StatusReadStatus ==
    /\ StatusRead("L1045", "L1047", loading_status)
    /\ UNCHANGED <<loaderVars, registryVars, historyVars, budget, resets, backlog>>

\* "resemblyzer": voice_encoder is not None (app.py:1047)
StatusReadEncoder ==
    /\ StatusRead("L1047", "L1048", voice_encoder # None)
    /\ UNCHANGED <<loaderVars, registryVars, historyVars, budget, resets, backlog>>

\* "speakers": len(speaker_embeddings) (app.py:1048)
StatusReadSpeakers ==
    /\ StatusRead("L1048", "L1050", SpeakersCount(speaker_embeddings))
    /\ UNCHANGED <<loaderVars, registryVars, historyVars, budget, resets, backlog>>

\* self.wfile.write(json.dumps(status)) (app.py:1050)
StatusRespond ==
    /\ \E h \in handlers :
          /\ h.path = "/status"
          /\ h.pc = "L1050"
          /\ response' = Reply(200, StatusBody(h.seen))
    /\ handlers' = {}
    /\ UNCHANGED <<loaderVars, registryVars, chunk, result, calls, ds, fresh,
                   budget, resets, backlog>>

\* POST /transcribe and POST /reset, served when no other handler runs
SerialTranscribe == CanAccept(handlers) /\ TranscribeWarm
SerialReset == CanAccept(handlers) /\ ResetSpeakers

\* A step of the loader thread
LoaderNext ==
    \/ LoadStatusWhisper
    \/ LoadWhisper
    \/ LoadStatusResemblyzer
    \/ LoadResemblyzer
    \/ LoadSetReady
    \/ LoadStatusReady
    \/ LoadError

NextStatus ==
    \/ LoadStatusWhisper
    \/ LoadWhisper
    \/ LoadStatusResemblyzer
    \/ LoadResemblyzer
    \/ LoadSetReady
    \/ LoadStatusReady
    \/ LoadError
    \/ StatusBegin
    \/ StatusReadReady
    \/ StatusReadStatus
    \/ StatusReadEncoder
    \/ StatusReadSpeakers
    \/ StatusRespond
    \/ SerialTranscribe
    \/ SerialReset

SpecStatus == Init /\ [][NextStatus]_vars

\* The loader is a started thread (app.py:1133-1134): the interpreter keeps
\* scheduling it, so a statement it is about to run does run.
SpecLive == Init /\ [][NextStatus]_vars /\ WF_vars(LoaderNext)

---------------------------------------------------------------------------
(* Properties *)

\* Every step of Next is a loader step (it moves loader_pc), a reset (it
\* uses up one of resets) or a POST /transcribe, which hands a chunk to
\* transcribe_audio unless the body is bad.
LoaderStep == loader_pc' # loader_pc
ResetStep == resets' # resets
PostTranscribeStep == ~LoaderStep /\ ~ResetStep
TranscribeStep == PostTranscribeStep /\ chunk' # NoChunk

\* A POST /transcribe step in which detect_speaker was invoked
DetectCall == TranscribeStep /\ ds'.called

\* Mean similarity of embedding e against the i-th identity of registry d
Score(d, e, i) == AvgSimilarity(e, d[i].embs)

AtLeastThreshold(q) == q[1] * 100 >= 85 * q[2]

AllBelow(d, e) == \A i \in 1..Len(d) : ~AtLeastThreshold(Score(d, e, i))

\* label names an identity of d whose score against e no identity exceeds
BestScoring(d, e, label) ==
    \E i \in 1..Len(d) :
        /\ d[i].id = label
        /\ \A j \in 1..Len(d) : RatGE(Score(d, e, i), Score(d, e, j))

\* the i-th identity is the first of those with the highest score
FirstBest(d, e, i) ==
    /\ \A j \in 1..Len(d) : RatGE(Score(d, e, i), Score(d, e, j))
    /\ \A j \in 1..(i - 1) : RatGT(Score(d, e, i), Score(d, e, j))

IsPrefix(a, b) == Len(a) <= Len(b) /\ \A k \in 1..Len(a) : b[k] = a[k]

Holds(d, e) == \E i \in 1..Len(d) : \E k \in 1..Len(d[i].embs) : d[i].embs[k] = e

\* C1: with 10 identities in the registry, a detect_speaker call whose
\* embedding scores below the threshold against every identity returns the
\* label of a best-scoring existing identity and leaves the registry as it was.
C1_CapFallback ==
    [][(/\ DetectCall
        /\ ds'.embedding # NoEmbedding
        /\ Len(speaker_embeddings) = 10
        /\ AllBelow(speaker_embeddings, ds'.embedding))
       => /\ BestScoring(speaker_embeddings, ds'.embedding, ds'.ret)
          /\ speaker_embeddings' = speaker_embeddings]_vars

\* The fallback happened: ten identities, the last embedding scored 0.8
\* against "A", less against the others, and "A" was returned.
C1_Witness ==
    /\ Len(speaker_embeddings) = 10
    /\ ds.called
    /\ ds.embedding = BelowVoice1
    /\ AllBelow(speaker_embeddings, ds.embedding)
    /\ ds.ret = "A"

\* C2: in every reachable state the registry holds at most 10 identities.
C2_SizeCap == Len(speaker_embeddings) <= 10

\* An eleventh, unheard voice was attributed while ten identities existed.
C2_Witness ==
    /\ Len(speaker_embeddings) = 10
    /\ ds.called
    /\ ds.embedding = Voice(NumDirs)
    /\ ~Holds(speaker_embeddings, Voice(NumDirs))

\* C3: no reference set ever holds more than 10 embeddings, and a
\* detect_speaker call that attributes an embedding (score >= threshold) to
\* an identity whose set holds 10 leaves the registry as it was and returns
\* that identity's label.
C3_RefCap ==
    /\ [](\A i \in 1..Len(speaker_embeddings) : Len(speaker_embeddings[i].embs) <= 10)
    /\ [][(DetectCall /\ ds'.embedding # NoEmbedding) =>
            \A i \in 1..Len(speaker_embeddings) :
              (/\ Len(speaker_embeddings[i].embs) = 10
               /\ AtLeastThreshold(Score(speaker_embeddings, ds'.embedding, i))
               /\ FirstBest(speaker_embeddings, ds'.embedding, i))
              => /\ speaker_embeddings' = speaker_embeddings
                 /\ ds'.ret = speaker_embeddings[i].id]_vars

\* An embedding other than the stored ones matched the full set of "A".
C3_Witness ==
    /\ Len(speaker_embeddings) >= 1
    /\ Len(speaker_embeddings[1].embs) = 10
    /\ ds.called
    /\ ds.embedding = NearVoice1
    /\ ds.ret = "A"
    /\ ~Holds(speaker_embeddings, NearVoice1)

\* C4: detect_speaker(None) leaves the registry and the current-speaker
\* pointer unchanged and returns the pointer's value from before the call.
C4_NoneIsPure ==
    [][(DetectCall /\ ds'.embedding = NoEmbedding)
       => /\ speaker_embeddings' = speaker_embeddings
          /\ current_speaker' = current_speaker
          /\ ds'.ret = current_speaker]_vars

\* detect_speaker(None) echoed "B" with two identities known.
C4_Witness ==
    /\ ds.called
    /\ ds.embedding = NoEmbedding
    /\ ds.ret = "B"
    /\ Len(speaker_embeddings) = 2

\* C5: a detect_speaker call with an embedding on an empty registry returns
\* "A", leaves exactly the identity "A" with that one embedding as its
\* reference set, and points the current speaker at "A".
C5_FirstIsA ==
    [][(DetectCall /\ ds'.embedding # NoEmbedding /\ speaker_embeddings = <<>>)
       => /\ ds'.ret = "A"
          /\ speaker_embeddings' = <<[id |-> "A", embs |-> <<ds'.embedding>>]>>
          /\ current_speaker' = "A"]_vars

\* After a reset the first embedding heard founded identity "A".
C5_Witness ==
    /\ resets < MaxResets
    /\ ds.called
    /\ ds.embedding = NearVoice1
    /\ ds.ret = "A"
    /\ speaker_embeddings = <<[id |-> "A", embs |-> <<NearVoice1>>]>>

\* C6: the k-th identity of the registry carries the k-th letter; no step
\* but a reset relabels an identity; a step that adds an identity appends
\* exactly one, under the next letter, and keeps the others as they were;
\* and an embedding that scores below the threshold against every identity
\* changes no existing identity.
C6_SequentialLabels ==
    /\ [](\A i \in 1..Len(speaker_embeddings) : speaker_embeddings[i].id = Letters[i])
    /\ [][/\ ~ResetStep =>
               \A i \in 1..Len(speaker_embeddings) :
                   /\ i <= Len(speaker_embeddings')
                   /\ speaker_embeddings'[i].id = speaker_embeddings[i].id
          /\ Len(speaker_embeddings') > Len(speaker_embeddings) =>
               /\ Len(speaker_embeddings') = Len(speaker_embeddings) + 1
               /\ SubSeq(speaker_embeddings', 1, Len(speaker_embeddings)) = speaker_embeddings
               /\ speaker_embeddings'[Len(speaker_embeddings')].id
                      = Letters[Len(speaker_embeddings) + 1]
          /\ (/\ DetectCall
              /\ ds'.embedding # NoEmbedding
              /\ AllBelow(speaker_embeddings, ds'.embedding)) =>
               \A i \in 1..Len(speaker_embeddings) :
                   /\ i <= Len(speaker_embeddings')
                   /\ speaker_embeddings'[i] = speaker_embeddings[i]]_vars

\* After a reset two voices were heard and labelled "A" and "B" again.
C6_Witness ==
    /\ resets < MaxResets
    /\ Len(speaker_embeddings) = 2
    /\ speaker_embeddings[2].id = "B"
    /\ ds.called
    /\ ds.ret = "B"
    /\ ds.embedding = BelowVoice1

\* C7: after reset_speakers the registry and pointer are those of a freshly
\* started process, and every later detect_speaker call returns the label
\* and leaves the registry and pointer that the same calls produce on a
\* freshly started process.
C7_ResetIsFresh ==
    /\ [](/\ speaker_embeddings = fresh.speaker_embeddings
          /\ current_speaker = fresh.current_speaker)
    /\ [][DetectCall => ds'.ret = fresh'.ret]_vars
    /\ [][ResetStep => speaker_embeddings' = <<>> /\ current_speaker' = "A"]_vars

\* After a reset two chunks founded "A" and "B" on both registries alike.
C7_Witness ==
    /\ resets < MaxResets
    /\ budget = 0
    /\ Len(speaker_embeddings) = 2
    /\ ds.called
    /\ ds.ret = "B"
    /\ fresh.ret = "B"
    /\ "total_speakers" \in DOMAIN result
    /\ result.total_speakers = 2

\* C8: after every detect_speaker call that was given an embedding, the
\* current-speaker pointer is the label the call returned.
C8_PointerIsReturned ==
    [][(DetectCall /\ ds'.embedding # NoEmbedding) => current_speaker' = ds'.ret]_vars

\* C9: across any step but reset_speakers every identity stays, in place,
\* and its reference set before the step is a prefix of the one after.
C9_RegistryGrows ==
    [][~ResetStep =>
          \A i \in 1..Len(speaker_embeddings) :
              /\ i <= Len(speaker_embeddings')
              /\ speaker_embeddings'[i].id = speaker_embeddings[i].id
              /\ IsPrefix(speaker_embeddings[i].embs, speaker_embeddings'[i].embs)]_vars

\* "A" grew by a sample unlike its first one while another identity existed.
C9_Witness ==
    /\ Len(speaker_embeddings) >= 2
    /\ Len(speaker_embeddings[1].embs) >= 2
    /\ speaker_embeddings[1].embs[1] = Voice(1)
    /\ speaker_embeddings[1].embs[Len(speaker_embeddings[1].embs)] = NearVoice1
    /\ ds.called
    /\ ds.embedding = NearVoice1

\* C10: while is_ready is false a transcribe_audio call returns the
\* not-ready error, invokes no collaborator and leaves the registry and the
\* pointer alone; and is_ready implies the speech-to-text model is loaded.
C10_NotReady ==
    /\ [](is_ready => whisper_model # None)
    /\ [][(TranscribeStep /\ ~is_ready)
          => /\ result' = ErrorResult("Modelo no cargado")
             /\ calls' = <<>>
             /\ ~ds'.called
             /\ speaker_embeddings' = speaker_embeddings
             /\ current_speaker' = current_speaker]_vars

\* A chunk was refused while both models were loaded but the flag not yet set.
C10_Witness ==
    /\ ~is_ready
    /\ loader_pc = "L60"
    /\ voice_encoder # None
    /\ result = ErrorResult("Modelo no cargado")
    /\ budget < MaxFree


Range(s) == {s[i] : i \in DOMAIN s}

\* C11: when the system is ready and the embedding model is absent, every
\* successfully transcribed chunk carries the current-speaker label as its
\* speaker, never none.
C11_StaticLabel ==
    [][(TranscribeStep /\ is_ready /\ voice_encoder = None /\ "text" \in DOMAIN result')
       => /\ result'.speaker = current_speaker
          /\ result'.speaker # None]_vars

\* C12: a transcribe_audio call in which the speech-to-text call raises
\* returns an error result and leaves the registry and the current-speaker
\* pointer as they were before the call.
C12_ErrorLeavesRegistry ==
    [][(TranscribeStep /\ is_ready /\ chunk'.b64_ok /\ (chunk'.stt_raises \/ ~chunk'.decodable))
       => /\ "error" \in DOMAIN result'
          /\ speaker_embeddings' = speaker_embeddings
          /\ current_speaker' = current_speaker]_vars

\* C13: a transcribe_audio call on a chunk that cannot be decoded returns an
\* error result, not a result with a text, and leaves the registry as it was.
C13_UndecodableIsError ==
    [][(TranscribeStep /\ ~chunk'.decodable)
       => /\ "error" \in DOMAIN result'
          /\ "text" \notin DOMAIN result'
          /\ speaker_embeddings' = speaker_embeddings]_vars

\* With both models loaded and two identities known, an undecodable chunk
\* went through detect_speaker without an embedding and came back an error.
C13_Witness ==
    /\ is_ready
    /\ voice_encoder # None
    /\ chunk # NoChunk
    /\ chunk.b64_ok
    /\ ~chunk.decodable
    /\ ds.called
    /\ ds.embedding = NoEmbedding
    /\ "error" \in DOMAIN result
    /\ Len(speaker_embeddings) = 2

\* C14: every POST /transcribe is answered with exactly one result, a
\* success result (text, speaker, language, total_speakers) or an error
\* result; no request is left without a response.
C14_EveryRequestAnswered ==
    [][PostTranscribeStep
       => /\ response'.status \in {200, 500}
          /\ \/ DOMAIN response'.body = {"text", "speaker", "language", "total_speakers"}
             \/ DOMAIN response'.body = {"error"}]_vars

\* C15: with several clients posting chunks and resets while the loader
\* runs, at most one handler is in progress at any time; the registry and
\* pointer a detect_speaker execution read are still in place when it
\* writes; and what it leaves is what an uninterrupted detect_speaker call
\* leaves, so no write lands on an identity another execution created.
C15_Serialized ==
    /\ [](Cardinality(handlers) <= 1)
    /\ [](\A h \in handlers :
            h.pc = "write" => h.seen = [speaker_embeddings |-> speaker_embeddings,
                                        current_speaker |-> current_speaker])
    /\ [][\A h \in handlers :
            (h.pc = "write" /\ h \notin handlers')
            => /\ speaker_embeddings' =
                    DetectSpeaker(speaker_embeddings, current_speaker,
                                  h.embedding).speaker_embeddings
               /\ current_speaker' =
                    DetectSpeaker(speaker_embeddings, current_speaker,
                                  h.embedding).current_speaker]_vars

\* A handler is between reading and writing the registry while another
\* client's chunk waits and the loader thread has a statement left to run.
C15_Witness ==
    /\ loader_pc = "L61"
    /\ \E h \in handlers : h.pc = "write" /\ h.embedding = Voice(2)
    /\ \E i \in 1..Len(backlog) :
          backlog[i].path = "/transcribe" /\ backlog[i].embedding = Voice(2)

\* out is what detect_speaker leaves and returns when called on the state
\* before the step
StepIs(out) ==
    /\ speaker_embeddings' = out.speaker_embeddings
    /\ current_speaker' = out.current_speaker
    /\ ds'.ret = out.ret

\* C16: the label a detect_speaker call returns and the registry and
\* pointer it leaves are a function of the registry and pointer before the
\* call and of the embedding (or its absence); reset_speakers always leaves
\* the initial registry and pointer; and no other step changes either.  So
\* two runs from the initial state that receive the same sequence of
\* detect_speaker inputs and resets agree at every call and end alike.
C16_Deterministic ==
    [][/\ DetectCall =>
            \A out \in {DetectSpeaker(speaker_embeddings, current_speaker, ds'.embedding)} :
                StepIs(out)
       /\ ResetStep =>
            (speaker_embeddings' = <<>> /\ current_speaker' = "A")
       /\ (~DetectCall /\ ~ResetStep) =>
            UNCHANGED <<speaker_embeddings, current_speaker>>]_vars

\* The sequence held an embedding, a reset, an embedding and an absent
\* embedding; between them the loader ran and chunks were refused.
C16_Witness ==
    /\ resets < MaxResets
    /\ budget = 0
    /\ ds.called
    /\ ds.embedding = NoEmbedding
    /\ ds.ret = "A"
    /\ speaker_embeddings = <<[id |-> "A", embs |-> <<OppositeVoice1>>]>>

\* The identities of d by position, each with its mean similarity to e
ScoresOf(d, e) == {<<i, Score(d, e, i)>> : i \in 1..Len(d)}

\* Of the pairs <<position, score>> in S, the one with the highest score
\* and, among those, the lowest position
FirstHighest(S) ==
    CHOOSE p \in S : \A q \in S : RatGT(p[2], q[2]) \/ (p[2] = q[2] /\ p[1] <= q[1])

\* A detect_speaker call with an embedding on a registry that is not empty
ScoringCall == DetectCall /\ ds'.embedding # NoEmbedding /\ speaker_embeddings # <<>>

MatchCase(d, e, top) ==
    RatGE(top[2], SIMILARITY_THRESHOLD) =>
        /\ ds'.ret = d[top[1]].id
        /\ current_speaker' = d[top[1]].id
        /\ Len(speaker_embeddings') = Len(d)
        /\ \A j \in 1..Len(d) :
              speaker_embeddings'[j] =
                  IF j = top[1] /\ Len(d[j].embs) < 10
                  THEN [id |-> d[j].id, embs |-> Append(d[j].embs, e)]
                  ELSE d[j]

\* C17: when the registry is not empty and the best mean similarity is at
\* least the threshold (0.85 itself included), detect_speaker returns the
\* best-scoring identity's label, adds no identity, appends the embedding
\* to that identity's reference set iff the set holds fewer than 10, leaves
\* every other reference set alone and points the current speaker at it.
C17_Match ==
    [][ScoringCall =>
          \A top \in {FirstHighest(ScoresOf(speaker_embeddings, ds'.embedding))} :
              MatchCase(speaker_embeddings, ds'.embedding, top)]_vars

\* With "B" current, an embedding scoring exactly 0.85 against "A" and 0.5
\* against "B" was attributed to "A".
C17_Witness ==
    /\ speaker_embeddings = <<[id |-> "A", embs |-> <<Voice(1), NearVoice1>>],
                              [id |-> "B", embs |-> <<Voice(2)>>]>>
    /\ ds.called
    /\ ds.embedding = NearVoice1
    /\ ds.ret = "A"
    /\ current_speaker = "A"

MintCase(d, e, top) ==
    (Len(d) <= 9 /\ ~RatGE(top[2], SIMILARITY_THRESHOLD)) =>
        /\ speaker_embeddings' = Append(d, [id |-> Letters[Len(d) + 1], embs |-> <<e>>])
        /\ current_speaker' = Letters[Len(d) + 1]
        /\ ds'.ret = Letters[Len(d) + 1]

\* C18: when the registry holds 1 to 9 identities and the best mean
\* similarity is below the threshold, detect_speaker adds exactly one
\* identity under the next letter with the embedding alone as its reference
\* set, leaves the existing identities as they were, points the current
\* speaker at the new label and returns it.
C18_Mint ==
    [][ScoringCall =>
          \A top \in {FirstHighest(ScoresOf(speaker_embeddings, ds'.embedding))} :
              MintCase(speaker_embeddings, ds'.embedding, top)]_vars

\* An embedding scoring 0.8 against "A" and 0.6 against "B" became "C".
C18_Witness ==
    /\ speaker_embeddings = <<[id |-> "A", embs |-> <<Voice(1)>>],
                              [id |-> "B", embs |-> <<Voice(2)>>],
                              [id |-> "C", embs |-> <<BelowVoice1>>]>>
    /\ ds.called
    /\ ds.ret = "C"
    /\ current_speaker = "C"

\* C19: the loop of detect_speaker selects the identity with the highest
\* mean similarity, the earliest-created one when several share the
\* highest mean, for every registry content and every score assignment,
\* all-equal and lowest-possible scores included.
C19_FirstHighest ==
    [][ScoringCall =>
          \A top \in {FirstHighest(ScoresOf(speaker_embeddings, ds'.embedding))} :
              BestMatch(speaker_embeddings, ds'.embedding).best_speaker
                  = speaker_embeddings[top[1]].id]_vars

\* C19, amended: the loop of detect_speaker selects the earliest-created of
\* the identities with the highest mean similarity whenever that mean is
\* above -1; when every mean is -1, the lowest possible, it selects none.
C19_FirstHighestAboveFloor ==
    [][ScoringCall =>
          \A top \in {FirstHighest(ScoresOf(speaker_embeddings, ds'.embedding))} :
              BestMatch(speaker_embeddings, ds'.embedding).best_speaker
                  = IF RatGT(top[2], <<-1, 1>>)
                    THEN speaker_embeddings[top[1]].id
                    ELSE None]_vars

\* At the cap an embedding scored -1 against "A" and 0 against each of the
\* other nine: "B", the first of the nine, was returned.
C19_Witness ==
    /\ Len(speaker_embeddings) = 10
    /\ ds.called
    /\ ds.embedding = OppositeVoice1
    /\ ds.ret = "B"

\* C20: when the system is ready with the embedding model loaded and a
\* chunk decodes to fewer than 1600 samples, before or after preprocessing,
\* embed_utterance is not invoked, detect_speaker is called without an
\* embedding and returns the current-speaker pointer of before the chunk,
\* which is the speaker of the result, the registry and the pointer stay as
\* they were, and whisper_model.transcribe is still invoked on the chunk.
C20_ShortChunk ==
    [][(/\ TranscribeStep
        /\ is_ready
        /\ voice_encoder # None
        /\ chunk'.b64_ok
        /\ chunk'.decodable
        /\ (chunk'.raw_len < 1600 \/ chunk'.pre_len < 1600))
       => /\ "embed_utterance" \notin Range(calls')
          /\ ds'.called
          /\ ds'.embedding = NoEmbedding
          /\ ds'.ret = current_speaker
          /\ "speaker" \in DOMAIN result' => result'.speaker = current_speaker
          /\ speaker_embeddings' = speaker_embeddings
          /\ current_speaker' = current_speaker
          /\ "whisper_model.transcribe" \in Range(calls')]_vars

\* With "B" current, a chunk of 1600 samples that preprocessing cut short
\* was transcribed and labelled "B".
C20_Witness ==
    /\ chunk # NoChunk
    /\ chunk.raw_len = 1600
    /\ chunk.pre_len < 1600
    /\ "text" \in DOMAIN result
    /\ result.text = "hola"
    /\ result.speaker = "B"
    /\ result.total_speakers = 2
    /\ calls = <<"get_voice_embedding", "detect_speaker", "whisper_model.transcribe">>

\* The positions at which collaborator name occurs in the sequence cs
Positions(cs, name) == {i \in DOMAIN cs : cs[i] = name}

\* C21: for every chunk accepted past the readiness gate, detect_speaker
\* is invoked exactly once, before the speech-to-text call, and the speaker
\* and total_speakers of a success result are the label that invocation
\* returned and the registry size at return.
C21_OncePerChunk ==
    [][(TranscribeStep /\ is_ready /\ chunk'.b64_ok)
       => /\ Cardinality(Positions(calls', "detect_speaker")) = 1
          /\ ds'.called
          /\ \A i \in Positions(calls', "detect_speaker") :
                \A j \in Positions(calls', "whisper_model.transcribe") : i < j
          /\ "text" \in DOMAIN result' =>
                /\ result'.speaker = ds'.ret
                /\ result'.total_speakers = Len(speaker_embeddings')]_vars

\* C24: in every reachable state the current-speaker pointer names an
\* identity of the registry, or the registry is empty and the pointer is "A".
C24_PointerIsKnown ==
    \/ current_speaker \in Keys(speaker_embeddings)
    \/ speaker_embeddings = <<>> /\ current_speaker = "A"

\* The last call returned "B"; a reset then emptied the registry and moved
\* the pointer back to "A".
C24_Witness ==
    /\ resets < MaxResets
    /\ speaker_embeddings = <<>>
    /\ current_speaker = "A"
    /\ ds.called
    /\ ds.ret = "B"

\* C25: every label detect_speaker returns, with or without an embedding,
\* names an identity of the registry as the call leaves it; so no success
\* result carries a speaker together with total_speakers = 0, or a speaker
\* of none while the embedding model is available.
C25_LabelIsKnown ==
    [][DetectCall
       => /\ ds'.ret \in Keys(speaker_embeddings')
          /\ "text" \in DOMAIN result' =>
                /\ result'.total_speakers # 0
                /\ result'.speaker # None]_vars

\* C26: in every reachable state every identity of the registry has at
\* least one embedding in its reference set.
C26_NonEmptySets ==
    \A i \in 1..Len(speaker_embeddings) : Len(speaker_embeddings[i].embs) >= 1

\* Ten identities, the first with a full reference set and the last with
\* the one embedding that created it.
C26_Witness ==
    /\ Len(speaker_embeddings) = 10
    /\ Len(speaker_embeddings[1].embs) = 10
    /\ Len(speaker_embeddings[10].embs) = 1
    /\ ds.called
    /\ ds.ret = "J"

\* C22: model loading runs once in the background.  When the speech-to-text
\* model has loaded, is_ready eventually becomes true, whether or not the
\* embedding model loads; when it has failed to load, is_ready never becomes
\* true and loading_status ends in the error value; once true, is_ready
\* never turns false again; a loader that has finished never runs again.
C22_Loading ==
    /\ (whisper_model # None) ~> is_ready
    /\ (loader_pc = "L66") ~> [](loading_status = "Error" /\ ~is_ready)
    /\ [](loader_pc = "L66" => ~is_ready)
    /\ [][is_ready => is_ready']_vars
    /\ [][loader_pc = "done" => UNCHANGED loaderVars]_vars

\* The loader has finished with the embedding model absent and the
\* service ready.
C22_Witness ==
    /\ loader_pc = "done"
    /\ whisper_model # None
    /\ voice_encoder = None
    /\ is_ready
    /\ loading_status = "Ready"

\* A step of a GET /status handler
StatusStep == \E h \in handlers \cup handlers' : h.path = "/status"

\* C23: a /status query changes no state (registry, current-speaker
\* pointer, readiness, loading status, models), before or after readiness,
\* and the speakers count it reports is the registry size at the moment of
\* the query.
C23_StatusIsPureRead ==
    [][(StatusStep /\ ~LoaderStep)
       => /\ UNCHANGED <<speaker_embeddings, current_speaker, is_ready,
                         loading_status, whisper_model, voice_encoder>>
          /\ handlers' = {} => response'.body.speakers = Len(speaker_embeddings)]_vars

\* A /status answered after readiness with two identities in the registry,
\* the first of them with a full reference set.
C23_Witness ==
    /\ handlers = {}
    /\ response.status = 200
    /\ "speakers" \in DOMAIN response.body
    /\ response.body.ready
    /\ response.body.speakers = 2
    /\ Len(speaker_embeddings) = 2
    /\ Len(speaker_embeddings[1].embs) = MAX_REFERENCE_SAMPLES

\* C27: under every interleaving of the loader thread with /status
\* requests, no /status response reports ready = true together with a
\* status text other than "Ready".
C27_StatusConsistent ==
    (response.status = 200 /\ "ready" \in DOMAIN response.body /\ response.body.ready)
        => response.body.status = "Ready"

=============================================================================
